---- MODULE Spec2Model ----
(***************************************************************************)
(* NutriPlan: the energy calculator of the input form (InputForm.tsx) and  *)
(* the plan session held by the App component (App.tsx), with the Gemini   *)
(* service (services/geminiService) as the Gateway.                        *)
(*                                                                         *)
(* Numbers.  JavaScript numbers are modelled exactly as integers over a    *)
(* fixed denominator:                                                      *)
(*   - bmr / calculatedBMR are held in quarter kcal (6.25 * height has a   *)
(*     denominator of 4);                                                  *)
(*   - an item's calories and macros are held in halves (the Gateway may   *)
(*     return fractional numbers);                                         *)
(*   - tdee, targetCalories, a day's totalCalories and dailyMacros are     *)
(*     whole numbers.                                                      *)
(* For every input of the valid ranges the IEEE-754 results of the source  *)
(* expressions equal these exact values.  Every number of a plan is        *)
(* non-negative; NaN, and a JSON null standing in a number's place, are    *)
(* held as the integers NaN and NullNumber below 0.                        *)
(*                                                                         *)
(* Specifications: SpecEnergy (the input form), Spec (the plan session),   *)
(* SpecPersistence (the plan session over the one-day plan, with every     *)
(* kind of alternative item), SpecTwoDays (the plan session over the       *)
(* two-day plan, with alternatives that lack a field), SpecGenerate (the   *)
(* input form together with the plan session), SpecDisplay (the plan       *)
(* session with PlanDisplay's week and day selection), SpecCard (one meal  *)
(* card), SpecCardLive (the card when its swaps settle) and SpecCooking    *)
(* (the cooking assistant of a card).                                      *)
(***************************************************************************)
EXTENDS Integers, Sequences, FiniteSets, TLC

VARIABLES
    formData,         \* InputForm: the form state (useState, InputForm.tsx:12)
    formMounted,      \* InputForm is rendered
    submitted,        \* InputForm: the last payload handed to onSubmit
    plan,             \* App: useState plan
    currentFormData,  \* App: useState currentFormData
    loading,          \* App: useState loading
    error,            \* App: useState error
    storage,          \* localStorage: keys userPlan, userFormData
    generating,       \* the pending generateMealPlan call of handleFormSubmit
    requests,         \* the pending handleSwapMeal calls (closures)
    lastOp,           \* history: the name of the last step of the App
    isOpen,           \* MealCard: useState isOpen
    showConfirm,      \* MealCard: useState showConfirm
    isSwapping,       \* MealCard: useState isSwapping
    isSwapped,        \* MealCard: useState isSwapped
    isLogged,         \* MealCard: useState isLogged
    onSwapPending,    \* MealCard: confirmSwap is suspended at await onSwap()
    swappedTimeouts,  \* MealCard: pending setTimeout(() => setIsSwapped(false))
    loggedTimeouts,   \* MealCard: pending setTimeout(() => setIsLogged(false))
    swapResult,       \* history: how the card's last handleSwapMeal call ended
    activeWeek,       \* PlanDisplay: useState activeWeek
    activeDayIndex,   \* PlanDisplay: useState activeDayIndex
    instructions,     \* MealCard: item.instructions || [] of the item shown
    isCookingMode,    \* MealCard: useState isCookingMode
    activeStepIndex,  \* MealCard: useState activeStepIndex
    isTimerRunning,   \* MealCard: useState isTimerRunning
    timerMode,        \* MealCard: useState timerMode
    timerValue,       \* MealCard: useState timerValue, in seconds
    timerTotalDuration, \* MealCard: useState timerTotalDuration
    isAlarmRinging,   \* MealCard: useState isAlarmRinging
    isMuted           \* MealCard: useState isMuted

formVars == <<formData, formMounted, submitted>>
appVars == <<plan, currentFormData, loading, error, storage, generating, requests,
            lastOp>>
cardVars == <<isOpen, showConfirm, isSwapping, isSwapped, isLogged, onSwapPending,
             swappedTimeouts, loggedTimeouts, swapResult>>
displayVars == <<activeWeek, activeDayIndex>>
cookVars == <<instructions, isCookingMode, activeStepIndex, isTimerRunning,
             timerMode, timerValue, timerTotalDuration, isAlarmRinging, isMuted>>
vars == <<formData, formMounted, submitted, plan, currentFormData, loading,
          error, storage, generating, requests, lastOp, isOpen, showConfirm,
          isSwapping, isSwapped, isLogged, onSwapPending, swappedTimeouts,
          loggedTimeouts, swapResult, activeWeek, activeDayIndex, instructions,
          isCookingMode, activeStepIndex, isTimerRunning, timerMode, timerValue,
          timerTotalDuration, isAlarmRinging, isMuted>>

\* null / undefined
Null == [null |-> TRUE]

\* NaN, and null where a number is expected.
NaN == -1
NullNumber == -2

Max(a, b) == IF a >= b THEN a ELSE b

\* Math.round of the rational num / den (den > 0): the nearest integer, a
\* half rounding towards +Infinity.
MathRound(num, den) == (2 * num + den) \div (2 * den)

(***************************************************************************)
(* Energy model (InputForm.tsx)                                            *)
(***************************************************************************)

Genders == {"Male", "Female", "Other"}
ActivityLevels == {"Sedentary", "Light", "Moderate", "Active", "Very Active"}
PlanGoals == {"maintenance", "deficit"}

MinAge == 15
MaxAge == 100
MinHeight == 100
MaxHeight == 250
MinWeight == 30
MaxWeight == 300
DefaultAge == 30
DefaultHeight == 170
DefaultWeight == 70
DefaultDuration == 3

\* The options of the Plan Duration select.
Durations == {1, 3, 5, 7, 30}

\* The values typed into the number fields: both ends of each range, values
\* inside it, the neighbours outside it, and 0, the empty field
\* (Number("") = 0).
AgeValues == {0, MinAge - 1, MinAge, DefaultAge, 45, 60, 75, MaxAge, MaxAge + 1}
HeightValues ==
    {0, MinHeight - 1, MinHeight, 125, 150, DefaultHeight, 200, MaxHeight,
     MaxHeight + 1}
WeightValues ==
    {0, MinWeight - 1, MinWeight, 40, 55, DefaultWeight, 120, MaxWeight,
     MaxWeight + 1}

InitialFormData ==
    [age |-> DefaultAge, gender |-> "Female", height |-> DefaultHeight,
     weight |-> DefaultWeight, activityLevel |-> "Moderate",
     duration |-> DefaultDuration, planGoal |-> "maintenance"]

\* The activity multipliers, times 1000.
multipliers(level) ==
    CASE level = "Sedentary" -> 1200
      [] level = "Light" -> 1375
      [] level = "Moderate" -> 1550
      [] level = "Active" -> 1725
      [] level = "Very Active" -> 1900

\* bmr with the +5 offset given to every category but "Female".
bmrOtherAsMale(fd) ==
    IF fd.weight = 0 \/ fd.height = 0 \/ fd.age = 0
    THEN 0
    ELSE LET base == 40 * fd.weight + 25 * fd.height - 20 * fd.age
         IN  IF fd.gender # "Female" THEN base + 20 ELSE base - 644

\* BMR (Mifflin-St Jeor) in quarter kcal.
bmr(fd) ==
    IF fd.weight = 0 \/ fd.height = 0 \/ fd.age = 0
    THEN 0
    ELSE LET base == 40 * fd.weight + 25 * fd.height - 20 * fd.age
         IN  IF fd.gender = "Male" THEN base + 20 ELSE base - 644

\* tdee with Math.floor in place of Math.round.
tdeeTruncated(fd) == (bmr(fd) * multipliers(fd.activityLevel)) \div 4000

\* Math.round(bmr * multipliers[activityLevel])
tdee(fd) == MathRound(bmr(fd) * multipliers(fd.activityLevel), 4000)

\* targetCalories with deficit >= bmr in place of deficit > bmr.
targetCaloriesAtBoundary(fd) ==
    IF fd.planGoal = "deficit"
    THEN LET deficit == tdee(fd) - 500
         IN  IF 4 * deficit >= bmr(fd)
             THEN deficit
             ELSE Max(1200, MathRound(tdee(fd) * 85, 100))
    ELSE tdee(fd)

\* targetCalories taking tdee - 500 whatever the bmr, without the floor.
targetCaloriesUnguarded(fd) ==
    IF fd.planGoal = "deficit" THEN tdee(fd) - 500 ELSE tdee(fd)

\* targetCalories with 1.15 in place of 0.85 in the floor branch.
targetCaloriesAboveMaintenance(fd) ==
    IF fd.planGoal = "deficit"
    THEN LET deficit == tdee(fd) - 500
         IN  IF 4 * deficit > bmr(fd)
             THEN deficit
             ELSE Max(1200, MathRound(tdee(fd) * 115, 100))
    ELSE tdee(fd)

targetCalories(fd) ==
    IF fd.planGoal = "deficit"
    THEN LET deficit == tdee(fd) - 500
         IN  IF 4 * deficit > bmr(fd)
             THEN deficit
             ELSE Max(1200, MathRound(tdee(fd) * 85, 100))
    ELSE tdee(fd)

\* The calculator panel of the form: the useMemo values of the render.
calculator ==
    [bmr |-> bmr(formData), tdee |-> tdee(formData),
     targetCalories |-> targetCalories(formData)]

\* The browser's constraint validation of the number inputs (min, max,
\* required): the form's submit event fires only when it passes.
FormValid(fd) ==
    /\ fd.age >= MinAge /\ fd.age <= MaxAge
    /\ fd.height >= MinHeight /\ fd.height <= MaxHeight
    /\ fd.weight >= MinWeight /\ fd.weight <= MaxWeight

\* The payload of onSubmit: the form data with the derived fields attached.
Submission(fd) ==
    [age |-> fd.age, gender |-> fd.gender, height |-> fd.height,
     weight |-> fd.weight, activityLevel |-> fd.activityLevel,
     duration |-> fd.duration, planGoal |-> fd.planGoal,
     calculatedBMR |-> bmr(fd),
     calculatedTDEE |-> tdee(fd),
     targetCalories |-> targetCalories(fd)]

handleChangeAge(v) ==
    /\ formMounted
    /\ formData' = [formData EXCEPT !.age = v]
    /\ UNCHANGED <<formMounted, submitted>>
    /\ UNCHANGED appVars
    /\ UNCHANGED cardVars
    /\ UNCHANGED displayVars
    /\ UNCHANGED cookVars

handleChangeHeight(v) ==
    /\ formMounted
    /\ formData' = [formData EXCEPT !.height = v]
    /\ UNCHANGED <<formMounted, submitted>>
    /\ UNCHANGED appVars
    /\ UNCHANGED cardVars
    /\ UNCHANGED displayVars
    /\ UNCHANGED cookVars

handleChangeWeight(v) ==
    /\ formMounted
    /\ formData' = [formData EXCEPT !.weight = v]
    /\ UNCHANGED <<formMounted, submitted>>
    /\ UNCHANGED appVars
    /\ UNCHANGED cardVars
    /\ UNCHANGED displayVars
    /\ UNCHANGED cookVars

handleChangeGender(v) ==
    /\ formMounted
    /\ formData' = [formData EXCEPT !.gender = v]
    /\ UNCHANGED <<formMounted, submitted>>
    /\ UNCHANGED appVars
    /\ UNCHANGED cardVars
    /\ UNCHANGED displayVars
    /\ UNCHANGED cookVars

handleChangeActivityLevel(v) ==
    /\ formMounted
    /\ formData' = [formData EXCEPT !.activityLevel = v]
    /\ UNCHANGED <<formMounted, submitted>>
    /\ UNCHANGED appVars
    /\ UNCHANGED cardVars
    /\ UNCHANGED displayVars
    /\ UNCHANGED cookVars

handleChangeDuration(v) ==
    /\ formMounted
    /\ formData' = [formData EXCEPT !.duration = v]
    /\ UNCHANGED <<formMounted, submitted>>
    /\ UNCHANGED appVars
    /\ UNCHANGED cardVars
    /\ UNCHANGED displayVars
    /\ UNCHANGED cookVars

setPlanGoal(v) ==
    /\ formMounted
    /\ formData' = [formData EXCEPT !.planGoal = v]
    /\ UNCHANGED <<formMounted, submitted>>
    /\ UNCHANGED appVars
    /\ UNCHANGED cardVars
    /\ UNCHANGED displayVars
    /\ UNCHANGED cookVars

\* handleSubmit: onSubmit receives the payload; the App then shows the
\* loading view, which unmounts the form.
handleSubmit ==
    /\ formMounted
    /\ FormValid(formData)
    /\ submitted' = Submission(formData)
    /\ formMounted' = FALSE
    /\ UNCHANGED formData
    /\ UNCHANGED appVars
    /\ UNCHANGED cardVars
    /\ UNCHANGED displayVars
    /\ UNCHANGED cookVars

\* The App renders the form again (after a reset or a dismissed error): a
\* fresh InputForm starts from the initial form data.
MountForm ==
    /\ ~formMounted
    /\ formMounted' = TRUE
    /\ formData' = InitialFormData
    /\ submitted' = Null
    /\ UNCHANGED appVars
    /\ UNCHANGED cardVars
    /\ UNCHANGED displayVars
    /\ UNCHANGED cookVars

(***************************************************************************)
(* Plans and items (types.ts) and what the Gateway may answer              *)
(***************************************************************************)

\* A MealItem; calories and macros in halves.
MealItem(name, calories, protein, carbs, fats) ==
    [name |-> name, calories |-> calories,
     macros |-> [protein |-> protein, carbs |-> carbs, fats |-> fats]]

Oatmeal == MealItem("Oatmeal", 801, 41, 80, 21)        \* 400.5 kcal
ChickenRice == MealItem("Chicken Rice", 1201, 61, 120, 31)  \* 600.5 kcal
Laksa == MealItem("Laksa", 1001, 50, 101, 30)          \* 500.5 kcal
Congee == MealItem("Congee", 600, 30, 60, 15)          \* 300 kcal
\* The alternative the Gateway proposes for a swap.
TofuBowl == MealItem("Tofu Bowl", 701, 35, 91, 19)     \* 350.5 kcal
\* An alternative that lacks the macros object.
NoMacrosItem == [name |-> "Mystery", calories |-> 700]
\* An alternative that lacks the calories.
NoCaloriesItem ==
    [name |-> "Broth", macros |-> [protein |-> 10, carbs |-> 20, fats |-> 4]]

\* What getAlternativeMeal's JSON.parse may yield.
AltItems == {TofuBowl, NoMacrosItem}
\* The same with the item that lacks the calories.
AllAltItems == AltItems \cup {NoCaloriesItem}

\* A two-day plan: day 1 carries totals that agree with its items, day 2
\* totals the Gateway estimated by itself (the code never checks them).
PlanA ==
    [safeCalorieRange |-> "1800-2200", summary |-> "A",
     days |-> <<
        [day |-> "Day 1",
         meals |-> << [type |-> "Breakfast", items |-> <<Oatmeal>>],
                      [type |-> "Lunch", items |-> <<ChickenRice>>] >>,
         totalCalories |-> 1001,
         dailyMacros |-> [protein |-> 51, carbs |-> 100, fats |-> 26]],
        [day |-> "Day 2",
         meals |-> << [type |-> "Breakfast", items |-> <<Laksa>>] >>,
         totalCalories |-> 520,
         dailyMacros |-> [protein |-> 25, carbs |-> 50, fats |-> 15]] >>,
     shoppingList |-> << [category |-> "Pantry", items |-> <<"Oats", "Rice">>] >>]

\* A one-day plan.
PlanB ==
    [safeCalorieRange |-> "1500-1800", summary |-> "B",
     days |-> <<
        [day |-> "Day 1",
         meals |-> << [type |-> "Breakfast", items |-> <<Congee>>] >>,
         totalCalories |-> 300,
         dailyMacros |-> [protein |-> 15, carbs |-> 30, fats |-> 8]] >>,
     shoppingList |-> << [category |-> "Pantry", items |-> <<"Rice">>] >>]

GatewayPlans == {PlanA, PlanB}

\* Parseable JSON that is no NutritionPlanResponse: the value null, an
\* object without days, a day without meals and dailyMacros.
NoDaysValue == [summary |-> "no days"]
DayWithoutMeals ==
    [safeCalorieRange |-> "", summary |-> "broken",
     days |-> << [day |-> "Day 1", totalCalories |-> 0] >>,
     shoppingList |-> << >>]
NonConformingValues == {Null, NoDaysValue, DayWithoutMeals}

\* What generateMealPlan's JSON.parse may yield.
ParsedValues == GatewayPlans \cup NonConformingValues

ItemConforms(item) ==
    {"name", "calories", "macros"} \subseteq DOMAIN item

DayConforms(day) ==
    /\ {"day", "meals", "totalCalories", "dailyMacros"} \subseteq DOMAIN day
    /\ \A g \in 1..Len(day.meals) :
          \A i \in 1..Len(day.meals[g].items) :
             ItemConforms(day.meals[g].items[i])

\* The NutritionPlanResponse schema (responseSchema).
ConformsToSchema(v) ==
    /\ {"safeCalorieRange", "summary", "days", "shoppingList"} \subseteq DOMAIN v
    /\ \A d \in 1..Len(v.days) : DayConforms(v.days[d])

\* The item slots of a plan, as the 0-based indices PlanDisplay passes.
Slots(p) ==
    UNION { UNION { { <<d, g, i>> :
                        i \in 0..(Len(p.days[d + 1].meals[g + 1].items) - 1) } :
                    g \in 0..(Len(p.days[d + 1].meals) - 1) } :
            d \in 0..(Len(p.days) - 1) }

ItemAt(p, s) == p.days[s[1] + 1].meals[s[2] + 1].items[s[3] + 1]

(***************************************************************************)
(* Plan Aggregator: the recompute block of handleSwapMeal                  *)
(***************************************************************************)

\* a + b of JavaScript: NaN when either is NaN.
Plus(a, b) == IF a = NaN \/ b = NaN THEN NaN ELSE a + b

\* Math.round of a number held in halves.
Round(x) == IF x = NaN THEN NaN ELSE MathRound(x, 2)

\* The number a forEach pass adds for one item: a missing property reads
\* as undefined, and a number plus undefined is NaN.
ItemValue(item, field) ==
    IF field = "calories"
    THEN IF "calories" \in DOMAIN item THEN item.calories ELSE NaN
    ELSE item.macros[field]

RECURSIVE SumItems(_, _)
SumItems(items, field) ==
    IF items = << >> THEN 0
    ELSE Plus(ItemValue(Head(items), field), SumItems(Tail(items), field))

\* day.meals.forEach(group => group.items.forEach(item => total += ...)),
\* in halves.
RECURSIVE SumGroups(_, _)
SumGroups(meals, field) ==
    IF meals = << >> THEN 0
    ELSE Plus(SumItems(Head(meals).items, field),
              SumGroups(Tail(meals), field))

\* item.macros.protein throws a TypeError when an item has no macros.
RecomputeThrows(day) ==
    \E g \in 1..Len(day.meals) :
       \E i \in 1..Len(day.meals[g].items) :
          "macros" \notin DOMAIN day.meals[g].items[i]

\* Math.round applied to every item before it is added.
RECURSIVE SumItemsRounded(_, _)
SumItemsRounded(items, field) ==
    IF items = << >> THEN 0
    ELSE Plus(Round(ItemValue(Head(items), field)),
              SumItemsRounded(Tail(items), field))

RECURSIVE SumGroupsRounded(_, _)
SumGroupsRounded(meals, field) ==
    IF meals = << >> THEN 0
    ELSE Plus(SumItemsRounded(Head(meals).items, field),
              SumGroupsRounded(Tail(meals), field))

\* RecomputedDay rounding per item.
RecomputedDayRoundingItems(day) ==
    [day EXCEPT
       !.totalCalories = SumGroupsRounded(day.meals, "calories"),
       !.dailyMacros = [protein |-> SumGroupsRounded(day.meals, "protein"),
                        carbs |-> SumGroupsRounded(day.meals, "carbs"),
                        fats |-> SumGroupsRounded(day.meals, "fats")]]

\* RecomputedDay with the accumulators starting from the day's present
\* totals instead of 0.
Doubled(n) == IF n = NaN THEN NaN ELSE IF n = NullNumber THEN 0 ELSE 2 * n

RecomputedDayAccumulating(day) ==
    [day EXCEPT
       !.totalCalories =
          Round(Plus(Doubled(day.totalCalories), SumGroups(day.meals, "calories"))),
       !.dailyMacros =
          [protein |-> Round(Plus(Doubled(day.dailyMacros.protein),
                                  SumGroups(day.meals, "protein"))),
           carbs |-> Round(Plus(Doubled(day.dailyMacros.carbs),
                                SumGroups(day.meals, "carbs"))),
           fats |-> Round(Plus(Doubled(day.dailyMacros.fats),
                               SumGroups(day.meals, "fats")))]]

\* The day with totalCalories and dailyMacros overwritten.
RecomputedDay(day) ==
    [day EXCEPT
       !.totalCalories = Round(SumGroups(day.meals, "calories")),
       !.dailyMacros = [protein |-> Round(SumGroups(day.meals, "protein")),
                        carbs |-> Round(SumGroups(day.meals, "carbs")),
                        fats |-> Round(SumGroups(day.meals, "fats"))]]

\* JSON.stringify writes null for NaN; every other value of a plan or a
\* profile is written as it is.
JSONNumber(n) == IF n = NaN THEN NullNumber ELSE n

JSONDay(day) ==
    [k \in DOMAIN day |->
        IF k = "totalCalories" THEN JSONNumber(day[k])
        ELSE IF k = "dailyMacros"
             THEN [f \in DOMAIN day[k] |-> JSONNumber(day[k][f])]
             ELSE day[k]]

JSONValue(v) ==
    IF "days" \in DOMAIN v
    THEN [v EXCEPT !.days = [d \in DOMAIN v.days |-> JSONDay(v.days[d])]]
    ELSE v

\* JSON.stringify(v): the text, held as the value it denotes.
JSONstringify(v) == [json |-> JSONValue(v)]

\* JSON.parse(text)
JSONparse(text) == text.json

\* newPlan after line 90: the deep copy of the closure's plan with the item
\* replaced.
WithItem(p, dayIndex, mealGroupIndex, itemIndex, newMeal) ==
    [JSONparse(JSONstringify(p)) EXCEPT
        !.days[dayIndex + 1].meals[mealGroupIndex + 1].items[itemIndex + 1]
           = newMeal]

\* SwappedPlan handing the copy to setPlan before the totals are recomputed.
SwappedPlanBeforeRecompute(p, dayIndex, mealGroupIndex, itemIndex, newMeal) ==
    WithItem(p, dayIndex, mealGroupIndex, itemIndex, newMeal)

\* newPlan as handed to setPlan.
SwappedPlan(p, dayIndex, mealGroupIndex, itemIndex, newMeal) ==
    LET newPlan == WithItem(p, dayIndex, mealGroupIndex, itemIndex, newMeal)
    IN  [newPlan EXCEPT !.days[dayIndex + 1] = RecomputedDay(@)]

(***************************************************************************)
(* Plan session (App.tsx)                                                  *)
(***************************************************************************)

\* Pending swaps at one time.
MaxInFlight == 2

\* The message of setError (a string, boxed so that it compares with Null).
ErrorMessage ==
    [text |-> "We encountered an issue connecting to our nutritionist AI. Please try again in a moment."]

\* The forms a user submits in a session, a one-day and a 30-day request:
\* the plan session does not read the profile, it only hands it to the
\* Gateway.
SessionForms ==
    { [InitialFormData EXCEPT !.planGoal = "deficit", !.duration = n] :
        n \in {1, 30} }

MaxShortDuration == 7
LongPlanDays == 28

\* The number of days generateMealPlan's prompt asks the Gateway for.
durationDays(duration) ==
    IF duration > MaxShortDuration THEN LongPlanDays ELSE duration

\* A value of the prompt written as ${x || 'N/A'}: the text N/A, held as a
\* number below 0, in place of 0.
NotAvailable == -3
OrNotAvailable(x) == IF x = 0 THEN NotAvailable ELSE x

\* What generateMealPlan's prompt tells the Gateway of the profile
\* (part_000:292-301).
Prompt(data) ==
    [age |-> data.age, gender |-> data.gender, height |-> data.height,
     weight |-> data.weight, activityLevel |-> data.activityLevel,
     planGoal |-> data.planGoal, days |-> durationDays(data.duration),
     calculatedBMR |-> OrNotAvailable(data.calculatedBMR),
     calculatedTDEE |-> OrNotAvailable(data.calculatedTDEE),
     targetCalories |-> OrNotAvailable(data.targetCalories)]

\* The persistence effects: they run after every render that changed plan
\* or currentFormData, before the next event is handled.
Persisted(p, fd) ==
    [userPlan |-> IF p = Null THEN Null ELSE JSONstringify(p),
     userFormData |-> IF fd = Null THEN Null ELSE JSONstringify(fd)]

\* PlanDisplay reads plan.days, the day shown, its meals and its
\* dailyMacros while rendering: without them it throws, and nothing of it
\* can be clicked.  An item's calories are only displayed.
PlanDisplayRenders(p) ==
    /\ "days" \in DOMAIN p
    /\ Len(p.days) > 0
    /\ \A d \in 1..Len(p.days) :
          {"meals", "dailyMacros"} \subseteq DOMAIN p.days[d]

\* The generator view's branches (App.tsx:194-243).
FormRendered == ~loading /\ error = Null /\ plan = Null
ErrorRendered == ~loading /\ error # Null
PlanDisplayRendered ==
    ~loading /\ error = Null /\ plan # Null /\ PlanDisplayRenders(plan)

\* InputForm.handleSubmit and handleFormSubmit up to its await.
Submit(fd) ==
    /\ FormRendered
    /\ FormValid(fd)
    /\ loading' = TRUE
    /\ error' = Null
    /\ currentFormData' = Submission(fd)
    /\ storage' = Persisted(plan, Submission(fd))
    /\ generating' = Submission(fd)
    /\ lastOp' = "Submit"
    /\ UNCHANGED <<plan, requests>>
    /\ UNCHANGED formVars
    /\ UNCHANGED cardVars
    /\ UNCHANGED displayVars
    /\ UNCHANGED cookVars

\* handleFormSubmit called with derived fields that were computed when the
\* form was mounted, not from the form data submitted.
handleFormSubmitStaleTargets ==
    /\ formMounted
    /\ FormRendered
    /\ FormValid(formData)
    /\ submitted' = [Submission(formData) EXCEPT
                        !.calculatedBMR = bmr(InitialFormData),
                        !.calculatedTDEE = tdee(InitialFormData),
                        !.targetCalories = targetCalories(InitialFormData)]
    /\ formMounted' = FALSE
    /\ loading' = TRUE
    /\ error' = Null
    /\ currentFormData' = submitted'
    /\ storage' = Persisted(plan, submitted')
    /\ generating' = submitted'
    /\ lastOp' = "Submit"
    /\ UNCHANGED <<formData, plan, requests>>
    /\ UNCHANGED cardVars
    /\ UNCHANGED displayVars
    /\ UNCHANGED cookVars

\* The form's submit event: InputForm.handleSubmit attaches the derived
\* fields of its render and calls onSubmit, which is handleFormSubmit, up
\* to its await of generateMealPlan(data).  The loading view takes the
\* form's place.
handleFormSubmit ==
    /\ formMounted
    /\ FormRendered
    /\ FormValid(formData)
    /\ submitted' = Submission(formData)
    /\ formMounted' = FALSE
    /\ loading' = TRUE
    /\ error' = Null
    /\ currentFormData' = submitted'
    /\ storage' = Persisted(plan, submitted')
    /\ generating' = submitted'
    /\ lastOp' = "Submit"
    /\ UNCHANGED <<formData, plan, requests>>
    /\ UNCHANGED cardVars
    /\ UNCHANGED displayVars
    /\ UNCHANGED cookVars

\* The App renders the generator's form branch: InputForm is mounted.
renderForm ==
    /\ FormRendered
    /\ MountForm

\* generateMealPlan throws: the Gateway call rejects ("error"), result.text is
\* empty ("empty"), or JSON.parse throws ("unparseable").  handleFormSubmit's
\* catch and finally.
GenerateFail(kind) ==
    /\ generating # Null
    /\ error' = ErrorMessage
    /\ loading' = FALSE
    /\ generating' = Null
    /\ lastOp' = "GenerateFail"
    /\ UNCHANGED <<plan, currentFormData, storage, requests>>
    /\ UNCHANGED formVars
    /\ UNCHANGED cardVars
    /\ UNCHANGED displayVars
    /\ UNCHANGED cookVars

\* generateMealPlan returns JSON.parse(text): setPlan(result), then finally.
GenerateRespond(result) ==
    /\ generating # Null
    /\ plan' = result
    /\ loading' = FALSE
    /\ generating' = Null
    /\ storage' = Persisted(result, currentFormData)
    /\ lastOp' = "GenerateRespond"
    /\ UNCHANGED <<currentFormData, error, requests>>
    /\ UNCHANGED formVars
    /\ UNCHANGED cardVars
    /\ UNCHANGED displayVars
    /\ UNCHANGED cookVars

\* The error view's Try Again button.
DismissError ==
    /\ ErrorRendered
    /\ error' = Null
    /\ lastOp' = "DismissError"
    /\ UNCHANGED <<plan, currentFormData, loading, storage, generating, requests>>
    /\ UNCHANGED formVars
    /\ UNCHANGED cardVars
    /\ UNCHANGED displayVars
    /\ UNCHANGED cookVars

\* handleResetGenerator without setCurrentFormData(null) and the removal of
\* userFormData.
handleResetGeneratorKeepingProfile ==
    /\ PlanDisplayRendered
    /\ plan' = Null
    /\ error' = Null
    /\ storage' = Persisted(Null, currentFormData)
    /\ requests' = { [r EXCEPT !.stale = TRUE] : r \in requests }
    /\ lastOp' = "handleResetGenerator"
    /\ UNCHANGED <<currentFormData, loading, generating>>
    /\ UNCHANGED formVars
    /\ UNCHANGED cardVars
    /\ activeWeek' = 0
    /\ activeDayIndex' = 0
    /\ UNCHANGED cookVars

\* handleResetGenerator, PlanDisplay's onReset.  Every swap still pending was
\* requested for the plan that is dropped here: it is marked stale (history).
\* PlanDisplay is unmounted, the next one starts at the first day.
handleResetGenerator ==
    /\ PlanDisplayRendered
    /\ plan' = Null
    /\ error' = Null
    /\ currentFormData' = Null
    /\ storage' = Persisted(Null, Null)
    /\ requests' = { [r EXCEPT !.stale = TRUE] : r \in requests }
    /\ lastOp' = "handleResetGenerator"
    /\ UNCHANGED <<loading, generating>>
    /\ UNCHANGED formVars
    /\ UNCHANGED cardVars
    /\ activeWeek' = 0
    /\ activeDayIndex' = 0
    /\ UNCHANGED cookVars

\* MealCard.confirmSwap calls handleSwapMeal, which returns at once when no
\* profile is held (line 85).
handleSwapMealReturn(dayIndex, mealGroupIndex, itemIndex) ==
    /\ PlanDisplayRendered
    /\ <<dayIndex, mealGroupIndex, itemIndex>> \in Slots(plan)
    /\ currentFormData = Null
    /\ lastOp' = "handleSwapMealReturn"
    /\ UNCHANGED <<plan, currentFormData, loading, error, storage, generating,
                   requests>>
    /\ UNCHANGED formVars
    /\ UNCHANGED cardVars
    /\ UNCHANGED displayVars
    /\ UNCHANGED cookVars

\* handleSwapMeal with the guard of line 85 testing the plan only.
handleSwapMealUnguarded(dayIndex, mealGroupIndex, itemIndex) ==
    /\ PlanDisplayRendered
    /\ <<dayIndex, mealGroupIndex, itemIndex>> \in Slots(plan)
    /\ Cardinality(requests) < MaxInFlight
    /\ requests' = requests \cup
          { [plan |-> plan, dayIndex |-> dayIndex,
             mealGroupIndex |-> mealGroupIndex, itemIndex |-> itemIndex,
             stale |-> FALSE] }
    /\ lastOp' = "handleSwapMeal"
    /\ UNCHANGED <<plan, currentFormData, loading, error, storage, generating>>
    /\ UNCHANGED formVars
    /\ UNCHANGED cardVars
    /\ UNCHANGED displayVars
    /\ UNCHANGED cookVars

\* MealCard.confirmSwap calls handleSwapMeal, which awaits getAlternativeMeal:
\* the pending call keeps the plan of the render it was created in.  A card
\* is mounted anew whenever PlanDisplay is (leaving the generator view and
\* coming back suffices), so every slot of the plan shown can be asked for.
\* A call equal to a pending one (same plan, same slot) is not held twice.
handleSwapMeal(dayIndex, mealGroupIndex, itemIndex) ==
    /\ PlanDisplayRendered
    /\ <<dayIndex, mealGroupIndex, itemIndex>> \in Slots(plan)
    /\ currentFormData # Null
    /\ Cardinality(requests) < MaxInFlight
    /\ requests' = requests \cup
          { [plan |-> plan, dayIndex |-> dayIndex,
             mealGroupIndex |-> mealGroupIndex, itemIndex |-> itemIndex,
             stale |-> FALSE] }
    /\ lastOp' = "handleSwapMeal"
    /\ UNCHANGED <<plan, currentFormData, loading, error, storage, generating>>
    /\ UNCHANGED formVars
    /\ UNCHANGED cardVars
    /\ UNCHANGED displayVars
    /\ UNCHANGED cookVars

\* SwapFail reporting through the global error, as handleFormSubmit does.
SwapFailSettingError(r) ==
    /\ r \in requests
    /\ requests' = requests \ {r}
    /\ error' = ErrorMessage
    /\ lastOp' = "SwapFail"
    /\ UNCHANGED <<plan, currentFormData, loading, storage, generating>>
    /\ UNCHANGED formVars
    /\ UNCHANGED cardVars
    /\ UNCHANGED displayVars
    /\ UNCHANGED cookVars

\* getAlternativeMeal throws (the call rejects, the text is empty or cannot
\* be parsed): handleSwapMeal's catch logs it.
SwapFail(r) ==
    /\ r \in requests
    /\ requests' = requests \ {r}
    /\ lastOp' = "SwapFail"
    /\ UNCHANGED <<plan, currentFormData, loading, error, storage, generating>>
    /\ UNCHANGED formVars
    /\ UNCHANGED cardVars
    /\ UNCHANGED displayVars
    /\ UNCHANGED cookVars

\* getAlternativeMeal returns newMeal, and the recompute loop throws on an
\* item without macros: the catch logs it, setPlan is not reached.
SwapThrow(r, newMeal) ==
    /\ r \in requests
    /\ RecomputeThrows(WithItem(r.plan, r.dayIndex, r.mealGroupIndex,
                                r.itemIndex, newMeal).days[r.dayIndex + 1])
    /\ requests' = requests \ {r}
    /\ lastOp' = "SwapThrow"
    /\ UNCHANGED <<plan, currentFormData, loading, error, storage, generating>>
    /\ UNCHANGED formVars
    /\ UNCHANGED cardVars
    /\ UNCHANGED displayVars
    /\ UNCHANGED cookVars

\* getAlternativeMeal returns newMeal: lines 89-114, setPlan(newPlan).
SwapCommit(r, newMeal) ==
    /\ r \in requests
    /\ ~RecomputeThrows(WithItem(r.plan, r.dayIndex, r.mealGroupIndex,
                                 r.itemIndex, newMeal).days[r.dayIndex + 1])
    /\ plan' = SwappedPlan(r.plan, r.dayIndex, r.mealGroupIndex, r.itemIndex,
                           newMeal)
    /\ storage' = Persisted(plan', currentFormData)
    /\ requests' = requests \ {r}
    /\ lastOp' = "SwapCommit"
    /\ UNCHANGED <<currentFormData, loading, error, generating>>
    /\ UNCHANGED formVars
    /\ UNCHANGED cardVars
    /\ UNCHANGED displayVars
    /\ UNCHANGED cookVars

\* The page is loaded again: the pending calls die with the page, the state
\* initialisers read localStorage (App.tsx:15-36), PlanDisplay starts at the
\* first day.
Reload ==
    /\ plan' = IF storage.userPlan = Null THEN Null
               ELSE JSONparse(storage.userPlan)
    /\ currentFormData' = IF storage.userFormData = Null THEN Null
                          ELSE JSONparse(storage.userFormData)
    /\ loading' = FALSE
    /\ error' = Null
    /\ generating' = Null
    /\ requests' = {}
    /\ storage' = Persisted(plan', currentFormData')
    /\ lastOp' = "Reload"
    /\ UNCHANGED formVars
    /\ UNCHANGED cardVars
    /\ activeWeek' = 0
    /\ activeDayIndex' = 0
    /\ UNCHANGED cookVars

(***************************************************************************)
(* A meal card (MealCard in PlanDisplay)                                   *)
(***************************************************************************)

\* Pending setTimeout callbacks of one kind.
MaxTimeouts == 2

\* How the handleSwapMeal call behind onSwap can end.  It is an async function
\* whose body after the guard is one try/catch that only logs: its promise
\* resolves with undefined when it returned at the guard ("returned"), when
\* it committed the new plan ("committed") and when the Gateway call or the
\* recomputation threw ("failed"); it never rejects.
SwapOutcomes == {"returned", "committed", "failed"}

\* The card's header.
toggleOpen ==
    /\ ~showConfirm
    /\ isOpen' = ~isOpen
    /\ UNCHANGED <<showConfirm, isSwapping, isSwapped, isLogged, onSwapPending,
                   swappedTimeouts, loggedTimeouts, swapResult>>
    /\ UNCHANGED formVars
    /\ UNCHANGED appVars
    /\ UNCHANGED displayVars
    /\ UNCHANGED cookVars

\* The Swap button, disabled while isSwapping or isSwapped.
handleSwapClick ==
    /\ ~showConfirm
    /\ ~(isSwapping \/ isSwapped)
    /\ showConfirm' = TRUE
    /\ UNCHANGED <<isOpen, isSwapping, isSwapped, isLogged, onSwapPending,
                   swappedTimeouts, loggedTimeouts, swapResult>>
    /\ UNCHANGED formVars
    /\ UNCHANGED appVars
    /\ UNCHANGED displayVars
    /\ UNCHANGED cookVars

\* The confirm dialog's Cancel button and backdrop.
cancelSwap ==
    /\ showConfirm
    /\ showConfirm' = FALSE
    /\ UNCHANGED <<isOpen, isSwapping, isSwapped, isLogged, onSwapPending,
                   swappedTimeouts, loggedTimeouts, swapResult>>
    /\ UNCHANGED formVars
    /\ UNCHANGED appVars
    /\ UNCHANGED displayVars
    /\ UNCHANGED cookVars

\* confirmSwap up to its await.
confirmSwap ==
    /\ showConfirm
    /\ showConfirm' = FALSE
    /\ isSwapping' = TRUE
    /\ onSwapPending' = TRUE
    /\ UNCHANGED <<isOpen, isSwapped, isLogged, swappedTimeouts, loggedTimeouts,
                   swapResult>>
    /\ UNCHANGED formVars
    /\ UNCHANGED appVars
    /\ UNCHANGED displayVars
    /\ UNCHANGED cookVars

\* confirmSwap after its await when a failed onSwap() rejects: the
\* statements after the await, setIsSwapping(false) among them, are skipped.
confirmSwapResumeRejecting(outcome) ==
    /\ onSwapPending
    /\ onSwapPending' = FALSE
    /\ isSwapping' = (outcome = "failed")
    /\ isSwapped' = IF outcome = "failed" THEN isSwapped ELSE TRUE
    /\ swappedTimeouts' = IF outcome = "failed" THEN swappedTimeouts
                          ELSE swappedTimeouts + 1
    /\ swapResult' = outcome
    /\ UNCHANGED <<isOpen, showConfirm, isLogged, loggedTimeouts>>
    /\ UNCHANGED formVars
    /\ UNCHANGED appVars
    /\ UNCHANGED displayVars
    /\ UNCHANGED cookVars

\* confirmSwap after its await: onSwap() has resolved.
confirmSwapResume(outcome) ==
    /\ onSwapPending
    /\ onSwapPending' = FALSE
    /\ isSwapping' = FALSE
    /\ isSwapped' = TRUE
    /\ swappedTimeouts' = swappedTimeouts + 1
    /\ swapResult' = outcome
    /\ UNCHANGED <<isOpen, showConfirm, isLogged, loggedTimeouts>>
    /\ UNCHANGED formVars
    /\ UNCHANGED appVars
    /\ UNCHANGED displayVars
    /\ UNCHANGED cookVars

\* setTimeout(() => setIsSwapped(false), 2000) fires.
swappedTimeout ==
    /\ swappedTimeouts > 0
    /\ swappedTimeouts' = swappedTimeouts - 1
    /\ isSwapped' = FALSE
    /\ UNCHANGED <<isOpen, showConfirm, isSwapping, isLogged, onSwapPending,
                   loggedTimeouts, swapResult>>
    /\ UNCHANGED formVars
    /\ UNCHANGED appVars
    /\ UNCHANGED displayVars
    /\ UNCHANGED cookVars

\* The Log button.
handleLogClick ==
    /\ ~showConfirm
    /\ loggedTimeouts < MaxTimeouts
    /\ isLogged' = TRUE
    /\ loggedTimeouts' = loggedTimeouts + 1
    /\ UNCHANGED <<isOpen, showConfirm, isSwapping, isSwapped, onSwapPending,
                   swappedTimeouts, swapResult>>
    /\ UNCHANGED formVars
    /\ UNCHANGED appVars
    /\ UNCHANGED displayVars
    /\ UNCHANGED cookVars

\* setTimeout(() => setIsLogged(false), 2000) fires.
loggedTimeout ==
    /\ loggedTimeouts > 0
    /\ loggedTimeouts' = loggedTimeouts - 1
    /\ isLogged' = FALSE
    /\ UNCHANGED <<isOpen, showConfirm, isSwapping, isSwapped, onSwapPending,
                   swappedTimeouts, swapResult>>
    /\ UNCHANGED formVars
    /\ UNCHANGED appVars
    /\ UNCHANGED displayVars
    /\ UNCHANGED cookVars

(***************************************************************************)
(* The day selection of PlanDisplay                                        *)
(***************************************************************************)

DaysPerWeek == 7

\* The days of the long plan the Gateway answers with.
LongGatewayDays == 8

\* A plan of more than a week, one item a day.
PlanLong ==
    [safeCalorieRange |-> "1500-1800", summary |-> "L",
     days |-> [d \in 1..LongGatewayDays |->
        [day |-> "Day " \o ToString(d),
         meals |-> << [type |-> "Breakfast", items |-> <<TofuBowl>>] >>,
         totalCalories |-> 351,
         dailyMacros |-> [protein |-> 18, carbs |-> 46, fats |-> 10]]],
     shoppingList |-> << [category |-> "Pantry", items |-> <<"Tofu">>] >>]

\* weeks: plan.days in chunks of 7.
weeks(p) ==
    [w \in 1..((Len(p.days) + DaysPerWeek - 1) \div DaysPerWeek) |->
        SubSeq(p.days, DaysPerWeek * (w - 1) + 1,
               IF DaysPerWeek * w < Len(p.days) THEN DaysPerWeek * w
               ELSE Len(p.days))]

\* weeks[activeWeek] || weeks[0]
visibleDays ==
    IF activeWeek + 1 \in DOMAIN weeks(plan) THEN weeks(plan)[activeWeek + 1]
    ELSE weeks(plan)[1]

absoluteDayIndex == (activeWeek * DaysPerWeek) + activeDayIndex

\* visibleDays[activeDayIndex] || visibleDays[0]
currentDayObject ==
    IF activeDayIndex + 1 \in DOMAIN visibleDays
    THEN visibleDays[activeDayIndex + 1]
    ELSE visibleDays[1]

\* A button of the week selector, shown when there is more than one week.
setActiveWeek(idx) ==
    /\ PlanDisplayRendered
    /\ Len(weeks(plan)) > 1
    /\ idx \in 0..(Len(weeks(plan)) - 1)
    /\ activeWeek' = idx
    /\ activeDayIndex' = 0
    /\ UNCHANGED formVars
    /\ UNCHANGED appVars
    /\ UNCHANGED cardVars
    /\ UNCHANGED cookVars

\* A button of the day navigation, one per visible day.
setActiveDayIndex(idx) ==
    /\ PlanDisplayRendered
    /\ idx \in 0..(Len(visibleDays) - 1)
    /\ activeDayIndex' = idx
    /\ UNCHANGED activeWeek
    /\ UNCHANGED formVars
    /\ UNCHANGED appVars
    /\ UNCHANGED cardVars
    /\ UNCHANGED cookVars

\* The onSwap of the cards shown: one per item of currentDayObject, each
\* calling onSwapMeal(absoluteDayIndex, groupIdx, itemIdx).
CardsShown ==
    IF PlanDisplayRendered
    THEN UNION { { <<absoluteDayIndex, g, i>> :
                     i \in 0..(Len(currentDayObject.meals[g + 1].items) - 1) } :
                 g \in 0..(Len(currentDayObject.meals) - 1) }
    ELSE {}

InitDisplay ==
    /\ activeWeek = 0
    /\ activeDayIndex = 0

(***************************************************************************)
(* The cooking assistant of a meal card                                    *)
(***************************************************************************)

\* The seconds a stopwatch is followed for.
MaxStopwatch == 3

SecondsPerMinute == 60

\* An instruction's text is held as the number the pattern of parseDuration
\* finds in it before "min", "minute" or "m", 0 when it finds none.  The
\* instructions of the items a card is given: three steps of which the
\* second is timed, one timed step, and no instructions.
Recipes == { <<0, 1, 0>>, <<1>>, << >> }

\* parseDuration: the seconds, or null (held as 0; line 472 tests it for
\* truthiness only).
parseDuration(text) == IF text > 0 THEN text * SecondsPerMinute ELSE 0

isFinished == activeStepIndex >= Len(instructions)

\* The effect that initialises the timer, run after a render in which
\* activeStepIndex, isCookingMode, isFinished or instructions changed;
\* alarm is isAlarmRinging as the handler before it left it.
InitializeTimer(alarm) ==
    IF isCookingMode' /\ ~(activeStepIndex' >= Len(instructions'))
    THEN LET duration == parseDuration(instructions'[activeStepIndex' + 1])
         IN  /\ isTimerRunning' = FALSE
             /\ isAlarmRinging' = FALSE
             /\ IF duration > 0
                THEN /\ timerMode' = "countdown"
                     /\ timerTotalDuration' = duration
                     /\ timerValue' = duration
                ELSE /\ timerMode' = "stopwatch"
                     /\ timerValue' = 0
                     /\ timerTotalDuration' = 0
    ELSE /\ isAlarmRinging' = alarm
         /\ UNCHANGED <<isTimerRunning, timerMode, timerValue,
                        timerTotalDuration>>

\* Start Cooking Mode, shown in the open card when there are instructions.
startCookingMode ==
    /\ isOpen
    /\ Len(instructions) > 0
    /\ ~isCookingMode
    /\ isCookingMode' = TRUE
    /\ UNCHANGED <<instructions, activeStepIndex, isMuted>>
    /\ InitializeTimer(isAlarmRinging)
    /\ UNCHANGED formVars
    /\ UNCHANGED appVars
    /\ UNCHANGED cardVars
    /\ UNCHANGED displayVars

\* Exit: setIsCookingMode(false); handleStopAlarm().
exitCookingMode ==
    /\ isOpen
    /\ isCookingMode
    /\ isCookingMode' = FALSE
    /\ UNCHANGED <<instructions, activeStepIndex, isMuted>>
    /\ InitializeTimer(FALSE)
    /\ UNCHANGED formVars
    /\ UNCHANGED appVars
    /\ UNCHANGED cardVars
    /\ UNCHANGED displayVars

\* Close Assistant, shown when the steps are finished.
closeAssistant ==
    /\ isOpen
    /\ isCookingMode
    /\ isFinished
    /\ activeStepIndex' = 0
    /\ isCookingMode' = FALSE
    /\ UNCHANGED <<instructions, isMuted>>
    /\ InitializeTimer(isAlarmRinging)
    /\ UNCHANGED formVars
    /\ UNCHANGED appVars
    /\ UNCHANGED cardVars
    /\ UNCHANGED displayVars

\* The interval of the tick effect fires: it exists while isTimerRunning and
\* not isAlarmRinging.
tick ==
    /\ isTimerRunning
    /\ ~isAlarmRinging
    /\ IF timerMode = "stopwatch"
       THEN /\ timerValue < MaxStopwatch
            /\ timerValue' = timerValue + 1
            /\ UNCHANGED <<isTimerRunning, isAlarmRinging>>
       ELSE IF timerValue <= 1
            THEN /\ isTimerRunning' = FALSE
                 /\ isAlarmRinging' = TRUE
                 /\ timerValue' = 0
            ELSE /\ timerValue' = timerValue - 1
                 /\ UNCHANGED <<isTimerRunning, isAlarmRinging>>
    /\ UNCHANGED <<instructions, isCookingMode, activeStepIndex, timerMode,
                   timerTotalDuration, isMuted>>
    /\ UNCHANGED formVars
    /\ UNCHANGED appVars
    /\ UNCHANGED cardVars
    /\ UNCHANGED displayVars

\* Stop Alarm, shown in place of the timer buttons while the alarm rings.
handleStopAlarm ==
    /\ isOpen
    /\ isCookingMode
    /\ ~isFinished
    /\ isAlarmRinging
    /\ isAlarmRinging' = FALSE
    /\ UNCHANGED <<instructions, isCookingMode, activeStepIndex, isTimerRunning,
                   timerMode, timerValue, timerTotalDuration, isMuted>>
    /\ UNCHANGED formVars
    /\ UNCHANGED appVars
    /\ UNCHANGED cardVars
    /\ UNCHANGED displayVars

toggleMute ==
    /\ isOpen
    /\ isCookingMode
    /\ isMuted' = ~isMuted
    /\ UNCHANGED <<instructions, isCookingMode, activeStepIndex, isTimerRunning,
                   timerMode, timerValue, timerTotalDuration, isAlarmRinging>>
    /\ UNCHANGED formVars
    /\ UNCHANGED appVars
    /\ UNCHANGED cardVars
    /\ UNCHANGED displayVars

\* The start/pause button, shown while the alarm does not ring.
toggleTimer ==
    /\ isOpen
    /\ isCookingMode
    /\ ~isFinished
    /\ ~isAlarmRinging
    /\ IF isAlarmRinging
       THEN isAlarmRinging' = FALSE /\ UNCHANGED isTimerRunning
       ELSE isTimerRunning' = ~isTimerRunning /\ UNCHANGED isAlarmRinging
    /\ UNCHANGED <<instructions, isCookingMode, activeStepIndex, timerMode,
                   timerValue, timerTotalDuration, isMuted>>
    /\ UNCHANGED formVars
    /\ UNCHANGED appVars
    /\ UNCHANGED cardVars
    /\ UNCHANGED displayVars

\* The reset button, shown while the alarm does not ring.
resetTimer ==
    /\ isOpen
    /\ isCookingMode
    /\ ~isFinished
    /\ ~isAlarmRinging
    /\ isTimerRunning' = FALSE
    /\ isAlarmRinging' = FALSE
    /\ timerValue' = IF timerMode = "countdown" THEN timerTotalDuration ELSE 0
    /\ UNCHANGED <<instructions, isCookingMode, activeStepIndex, timerMode,
                   timerTotalDuration, isMuted>>
    /\ UNCHANGED formVars
    /\ UNCHANGED appVars
    /\ UNCHANGED cardVars
    /\ UNCHANGED displayVars

\* Next Step / Finish Cooking.
nextStep ==
    /\ isOpen
    /\ isCookingMode
    /\ ~isFinished
    /\ activeStepIndex' = IF activeStepIndex < Len(instructions)
                          THEN activeStepIndex + 1 ELSE activeStepIndex
    /\ UNCHANGED <<instructions, isCookingMode, isMuted>>
    /\ InitializeTimer(FALSE)
    /\ UNCHANGED formVars
    /\ UNCHANGED appVars
    /\ UNCHANGED cardVars
    /\ UNCHANGED displayVars

\* Back, disabled at the first step.
prevStep ==
    /\ isOpen
    /\ isCookingMode
    /\ ~isFinished
    /\ activeStepIndex # 0
    /\ activeStepIndex' = IF activeStepIndex > 0
                          THEN activeStepIndex - 1 ELSE activeStepIndex
    /\ UNCHANGED <<instructions, isCookingMode, isMuted>>
    /\ InitializeTimer(FALSE)
    /\ UNCHANGED formVars
    /\ UNCHANGED appVars
    /\ UNCHANGED cardVars
    /\ UNCHANGED displayVars

\* PlanDisplay renders the card with another item: cards are keyed by their
\* index in the meal group, so the card at a position keeps its state when
\* another day is selected or when the swap of its item commits.
itemChanged(newInstructions) ==
    /\ instructions' = newInstructions
    /\ UNCHANGED <<isCookingMode, activeStepIndex, isMuted>>
    /\ InitializeTimer(isAlarmRinging)
    /\ UNCHANGED formVars
    /\ UNCHANGED appVars
    /\ UNCHANGED cardVars
    /\ UNCHANGED displayVars

InitCooking ==
    /\ instructions = << >>
    /\ isCookingMode = FALSE
    /\ activeStepIndex = 0
    /\ isTimerRunning = FALSE
    /\ timerMode = "stopwatch"
    /\ timerValue = 0
    /\ timerTotalDuration = 0
    /\ isAlarmRinging = FALSE
    /\ isMuted = FALSE

InitCard ==
    /\ isOpen = FALSE
    /\ showConfirm = FALSE
    /\ isSwapping = FALSE
    /\ isSwapped = FALSE
    /\ isLogged = FALSE
    /\ onSwapPending = FALSE
    /\ swappedTimeouts = 0
    /\ loggedTimeouts = 0
    /\ swapResult = "none"

InitApp ==
    /\ plan = Null
    /\ currentFormData = Null
    /\ loading = FALSE
    /\ error = Null
    /\ storage = Persisted(Null, Null)
    /\ generating = Null
    /\ requests = {}
    /\ lastOp = "init"

InitForm ==
    /\ formData = InitialFormData
    /\ formMounted = TRUE
    /\ submitted = Null

NextEnergy ==
    \/ \E v \in AgeValues : handleChangeAge(v)
    \/ \E v \in HeightValues : handleChangeHeight(v)
    \/ \E v \in WeightValues : handleChangeWeight(v)
    \/ \E v \in Genders : handleChangeGender(v)
    \/ \E v \in ActivityLevels : handleChangeActivityLevel(v)
    \/ \E v \in Durations : handleChangeDuration(v)
    \/ \E v \in PlanGoals : setPlanGoal(v)
    \/ handleSubmit
    \/ MountForm

InitEnergy == InitForm /\ InitApp /\ InitCard /\ InitDisplay /\ InitCooking

\* The input form alone.
SpecEnergy == InitEnergy /\ [][NextEnergy]_vars

\* The cards PlanDisplay shows: one per item slot of the plan.
SlotsShown == IF PlanDisplayRendered THEN Slots(plan) ELSE {}

Next ==
    \/ \E fd \in SessionForms : Submit(fd)
    \/ \E kind \in {"error", "empty", "unparseable"} : GenerateFail(kind)
    \/ \E result \in ParsedValues : GenerateRespond(result)
    \/ DismissError
    \/ handleResetGenerator
    \/ \E s \in SlotsShown : handleSwapMealReturn(s[1], s[2], s[3])
    \/ \E s \in SlotsShown : handleSwapMeal(s[1], s[2], s[3])
    \/ \E r \in requests : SwapFail(r)
    \/ \E r \in requests, newMeal \in AltItems : SwapThrow(r, newMeal)
    \/ \E r \in requests, newMeal \in AltItems : SwapCommit(r, newMeal)
    \/ Reload

Init == InitForm /\ InitApp /\ InitCard /\ InitDisplay /\ InitCooking

\* The plan session.
Spec == Init /\ [][Next]_vars

\* The plan session over the one-day plan, with every kind of alternative
\* the Gateway may propose.
NextPersistence ==
    \/ \E fd \in SessionForms : Submit(fd)
    \/ \E kind \in {"error", "empty", "unparseable"} : GenerateFail(kind)
    \/ \E result \in {PlanB} \cup NonConformingValues : GenerateRespond(result)
    \/ DismissError
    \/ handleResetGenerator
    \/ \E s \in SlotsShown : handleSwapMealReturn(s[1], s[2], s[3])
    \/ \E s \in SlotsShown : handleSwapMeal(s[1], s[2], s[3])
    \/ \E r \in requests : SwapFail(r)
    \/ \E r \in requests, newMeal \in AllAltItems : SwapThrow(r, newMeal)
    \/ \E r \in requests, newMeal \in AllAltItems : SwapCommit(r, newMeal)
    \/ Reload

InitPersistence == InitForm /\ InitApp /\ InitCard /\ InitDisplay /\ InitCooking

NextCard ==
    \/ toggleOpen
    \/ handleSwapClick
    \/ cancelSwap
    \/ confirmSwap
    \/ \E outcome \in SwapOutcomes : confirmSwapResume(outcome)
    \/ swappedTimeout
    \/ handleLogClick
    \/ loggedTimeout

InitCardAlone == InitForm /\ InitApp /\ InitCard /\ InitDisplay /\ InitCooking

\* One meal card of a shown plan.
SpecCard == InitCardAlone /\ [][NextCard]_vars

\* One meal card when every handleSwapMeal call it awaits settles: the
\* Gateway call behind it answers or fails, and the continuation of
\* confirmSwap is then run.
SpecCardLive ==
    /\ InitCardAlone
    /\ [][NextCard]_vars
    /\ WF_vars(\E outcome \in SwapOutcomes : confirmSwapResume(outcome))

SpecPersistence == InitPersistence /\ [][NextPersistence]_vars

\* The plan session over the two-day plan when the Gateway's alternatives
\* lack a required field.
NextTwoDays ==
    \/ \E fd \in SessionForms : Submit(fd)
    \/ GenerateRespond(PlanA)
    \/ \E s \in SlotsShown : handleSwapMeal(s[1], s[2], s[3])
    \/ \E r \in requests : SwapThrow(r, NoMacrosItem)
    \/ \E r \in requests : SwapCommit(r, NoCaloriesItem)

InitTwoDays == InitForm /\ InitApp /\ InitCard /\ InitDisplay /\ InitCooking

SpecTwoDays == InitTwoDays /\ [][NextTwoDays]_vars

\* The plan session with the day selection of PlanDisplay, over the one-day
\* plan and the plan of more than a week.
NextDisplay ==
    \/ \E fd \in SessionForms : Submit(fd)
    \/ \E result \in {PlanB, PlanLong} : GenerateRespond(result)
    \/ handleResetGenerator
    \/ \E idx \in 0..(LongGatewayDays \div DaysPerWeek) : setActiveWeek(idx)
    \/ \E idx \in 0..(DaysPerWeek - 1) : setActiveDayIndex(idx)
    \/ \E s \in CardsShown : handleSwapMeal(s[1], s[2], s[3])
    \/ \E r \in requests : SwapFail(r)
    \/ \E r \in requests : SwapCommit(r, TofuBowl)

InitDisplayed == InitForm /\ InitApp /\ InitCard /\ InitDisplay /\ InitCooking

SpecDisplay == InitDisplayed /\ [][NextDisplay]_vars

\* The values typed and chosen in a session that follows a form from its
\* fields to the Gateway: an end of each range, the default and the empty
\* field.
SessionAges == {0, DefaultAge, MaxAge}
SessionHeights == {MinHeight, DefaultHeight}
SessionWeights == {MinWeight, DefaultWeight}
SessionActivityLevels == {"Sedentary", "Moderate"}
SessionDurations == {DefaultDuration, 30}

\* The input form and the plan session together.
NextGenerate ==
    \/ \E v \in SessionAges : handleChangeAge(v)
    \/ \E v \in SessionHeights : handleChangeHeight(v)
    \/ \E v \in SessionWeights : handleChangeWeight(v)
    \/ \E v \in Genders : handleChangeGender(v)
    \/ \E v \in SessionActivityLevels : handleChangeActivityLevel(v)
    \/ \E v \in SessionDurations : handleChangeDuration(v)
    \/ \E v \in PlanGoals : setPlanGoal(v)
    \/ handleFormSubmit
    \/ \E kind \in {"error", "empty", "unparseable"} : GenerateFail(kind)
    \/ GenerateRespond(PlanB)
    \/ DismissError
    \/ handleResetGenerator
    \/ renderForm

InitGenerate == InitForm /\ InitApp /\ InitCard /\ InitDisplay /\ InitCooking

SpecGenerate == InitGenerate /\ [][NextGenerate]_vars

\* The cooking assistant of one meal card.
NextCooking ==
    \/ toggleOpen
    \/ startCookingMode
    \/ exitCookingMode
    \/ closeAssistant
    \/ tick
    \/ handleStopAlarm
    \/ toggleMute
    \/ toggleTimer
    \/ resetTimer
    \/ nextStep
    \/ prevStep
    \/ \E newInstructions \in Recipes : itemChanged(newInstructions)

InitCookingAlone == InitForm /\ InitApp /\ InitCard /\ InitDisplay /\ InitCooking

SpecCooking == InitCookingAlone /\ [][NextCooking]_vars

(***************************************************************************)
(* Properties                                                              *)
(***************************************************************************)

SlotOf(r) == <<r.dayIndex, r.mealGroupIndex, r.itemIndex>>

\* C1: a swap that commits for a plan still current leaves the item of
\* every other slot as it is in the current plan (no concurrent swap's
\* replacement is dropped or reverted).
C1_OtherSlotsKept ==
    [][lastOp' = "SwapCommit" => \A r \in requests, newMeal \in AltItems :
          (~r.stale /\ SwapCommit(r, newMeal)) =>
             \A s \in Slots(plan) :
                s # SlotOf(r) =>
                   s \in Slots(plan') /\ ItemAt(plan', s) = ItemAt(plan, s)]_vars

\* C2: the result of a swap requested before a reset never changes the
\* current plan.
C2_StaleSwapDiscarded ==
    [][lastOp' = "SwapCommit" => \A r \in requests, newMeal \in AltItems :
          (r.stale /\ SwapCommit(r, newMeal)) => plan' = plan]_vars

\* C3: the step that handles a failed Gateway call of a swap leaves the
\* plan, the profile, the error message, the loading flag and the persisted
\* entries as they are, and a Ready session stays Ready.
C3_FailedSwapChangesNothing ==
    [][lastOp' = "SwapFail" => \A r \in requests :
          SwapFail(r) =>
             /\ UNCHANGED <<plan, currentFormData, error, loading, storage>>
             /\ (plan # Null /\ currentFormData # Null /\ ~loading
                 /\ error = Null) =>
                   (plan' # Null /\ currentFormData' # Null /\ ~loading'
                    /\ error' = Null)]_vars

\* A swap failed in a Ready session whose plan an earlier swap had changed,
\* while another swap is still pending.
C3_Witness ==
    /\ lastOp = "SwapFail"
    /\ plan # Null /\ currentFormData # Null /\ ~loading /\ error = Null
    /\ ConformsToSchema(plan)
    /\ ItemAt(plan, <<0, 0, 0>>) = TofuBowl
    /\ requests # {}

DayTotalsAgree(day) ==
    /\ day.totalCalories = Round(SumGroups(day.meals, "calories"))
    /\ day.dailyMacros.protein = Round(SumGroups(day.meals, "protein"))
    /\ day.dailyMacros.carbs = Round(SumGroups(day.meals, "carbs"))
    /\ day.dailyMacros.fats = Round(SumGroups(day.meals, "fats"))

\* C4: after a swap commits on day d, day d of the current plan has
\* totalCalories = round(sum of its items' calories) and each dailyMacros
\* field = round(sum of the items' field), rounded once on the total.
C4_CommittedDayTotals ==
    [][lastOp' = "SwapCommit" => \A r \in requests, newMeal \in AltItems :
          SwapCommit(r, newMeal) =>
             DayTotalsAgree(plan'.days[r.dayIndex + 1])]_vars

\* A swap committed on day 1, which now holds two items of x.5 kcal each:
\* 350.5 + 600.5 = 951.
C4_Witness ==
    /\ lastOp = "SwapCommit"
    /\ ConformsToSchema(plan)
    /\ <<0, 1, 0>> \in Slots(plan)
    /\ ItemAt(plan, <<0, 0, 0>>) = TofuBowl
    /\ ItemAt(plan, <<0, 1, 0>>) = ChickenRice
    /\ plan.days[1].totalCalories = 951

\* C5: a submitted profile with goal deficit has targetCalories >= 1200.
C5_DeficitTargetAtLeast1200 ==
    (submitted # Null /\ submitted.planGoal = "deficit") =>
       submitted.targetCalories >= 1200

\* C6: the step that handles a failed generation ends with the generic
\* message set, loading false and no plan held.
C6_FailedGenerationHoldsNoPlan ==
    [][\A kind \in {"error", "empty", "unparseable"} :
          GenerateFail(kind) =>
             error' = ErrorMessage /\ ~loading' /\ plan' = Null]_vars

\* C7: a parsed response that does not conform to the schema fails the
\* generation: the message is set and the value is not stored as the plan.
C7_NonConformingResponseFails ==
    [][\A result \in NonConformingValues :
          GenerateRespond(result) =>
             error' = ErrorMessage /\ plan' = plan]_vars

\* C8: for goal deficit, targetCalories = tdee - 500 when tdee - 500 > bmr,
\* and max(1200, round(tdee * 0.85)) otherwise, with the rounded tdee and the
\* unrounded bmr of the submission.
C8_DeficitTarget ==
    (submitted # Null /\ submitted.planGoal = "deficit") =>
       submitted.targetCalories =
          IF 4 * (submitted.calculatedTDEE - 500) > submitted.calculatedBMR
          THEN submitted.calculatedTDEE - 500
          ELSE Max(1200, MathRound(submitted.calculatedTDEE * 85, 100))

\* The boundary tdee - 500 = bmr was submitted and the floor applied.
C8_Witness ==
    /\ submitted # Null
    /\ submitted.planGoal = "deficit"
    /\ 4 * (submitted.calculatedTDEE - 500) = submitted.calculatedBMR
    /\ submitted.targetCalories = 1200

\* C9: BMR = 10*weight + 6.25*height - 5*age + 5 for male and ... - 161 for
\* female and other, unrounded (here times 4).
C9_BMR ==
    submitted # Null =>
       submitted.calculatedBMR =
          40 * submitted.weight + 25 * submitted.height - 20 * submitted.age
          + (IF submitted.gender = "Male" THEN 20 ELSE -644)

\* A submission of the category other whose BMR is no whole number.
C9_Witness ==
    /\ submitted # Null
    /\ submitted.gender = "Other"
    /\ submitted.calculatedBMR % 4 # 0

\* C10: TDEE = round(bmr * m) with m fixed per activity level, for goal
\* maintenance targetCalories = TDEE, and female, 30 y, 170 cm, 70 kg,
\* moderate gives BMR 1451.5, TDEE 2250, target 2250.
C10_TDEE ==
    submitted # Null =>
       LET m == CASE submitted.activityLevel = "Sedentary" -> 1200
                  [] submitted.activityLevel = "Light" -> 1375
                  [] submitted.activityLevel = "Moderate" -> 1550
                  [] submitted.activityLevel = "Active" -> 1725
                  [] submitted.activityLevel = "Very Active" -> 1900
       IN  /\ submitted.calculatedTDEE =
                 (2 * submitted.calculatedBMR * m + 4000) \div 8000
           /\ submitted.planGoal = "maintenance" =>
                 submitted.targetCalories = submitted.calculatedTDEE
           /\ ( /\ submitted.gender = "Female" /\ submitted.age = 30
                /\ submitted.height = 170 /\ submitted.weight = 70
                /\ submitted.activityLevel = "Moderate"
                /\ submitted.planGoal = "maintenance" ) =>
                 /\ 2 * submitted.calculatedBMR = 2903 * 4
                 /\ submitted.calculatedTDEE = 2250
                 /\ submitted.targetCalories = 2250

\* The spec's scenario 1 was submitted.
C10_Witness ==
    /\ submitted # Null
    /\ submitted.gender = "Female" /\ submitted.age = 30
    /\ submitted.height = 170 /\ submitted.weight = 70
    /\ submitted.activityLevel = "Moderate"
    /\ submitted.planGoal = "maintenance"
    /\ submitted.targetCalories = 2250

\* C11: a submitted profile (its numeric fields are within the valid ranges)
\* carries calculatedBMR, calculatedTDEE and targetCalories that are all
\* non-negative.
C11_DerivedFieldsNonNegative ==
    submitted # Null =>
       /\ FormValid(submitted)
       /\ submitted.calculatedBMR >= 0
       /\ submitted.calculatedTDEE >= 0
       /\ submitted.targetCalories >= 0

\* The smallest profile was submitted with goal deficit: female, 100 y,
\* 100 cm, 30 kg, sedentary (BMR 264, TDEE 317), where tdee - 500 < 0.
C11_Witness ==
    /\ submitted # Null
    /\ submitted.planGoal = "deficit"
    /\ submitted.calculatedTDEE - 500 < 0
    /\ submitted.targetCalories = 1200

\* C12: every reset ends in Idle: no plan, no profile, no error message, not
\* loading, and the entries userPlan and userFormData removed.
C12_ResetLeavesIdle ==
    [][lastOp' = "handleResetGenerator" =>
          (handleResetGenerator =>
             /\ plan' = Null
             /\ currentFormData' = Null
             /\ error' = Null
             /\ ~loading'
             /\ storage'.userPlan = Null
             /\ storage'.userFormData = Null)]_vars

\* A reset happened while a swap was pending.
C12_Witness ==
    /\ lastOp = "handleResetGenerator"
    /\ requests # {}
    /\ plan = Null /\ currentFormData = Null

\* C13: from a state that holds no plan or no profile no step issues a swap
\* call to the Gateway, and a swap invoked there changes nothing.
C13_SwapOnlyInReady ==
    [][(plan = Null \/ currentFormData = Null) =>
          /\ \A r \in requests' :
                \E q \in requests : q.plan = r.plan /\ SlotOf(q) = SlotOf(r)
          /\ lastOp' = "handleSwapMealReturn" =>
                UNCHANGED <<plan, currentFormData, loading, error, storage,
                            generating, requests>>]_vars

\* A swap was invoked on a shown plan while no profile was held.
C13_Witness ==
    /\ lastOp = "handleSwapMealReturn"
    /\ plan # Null
    /\ currentFormData = Null

\* C14: dismissing the error of a failed generation leaves neither a plan
\* nor a profile, in memory or in the persisted entries.
C14_DismissedFailureIsIdle ==
    [][lastOp' = "DismissError" =>
          (DismissError =>
             /\ plan' = Null
             /\ currentFormData' = Null
             /\ storage'.userPlan = Null
             /\ storage'.userFormData = Null)]_vars

\* |a - b| <= 1, for a and b in halves.
WithinOne(a, b) == a - b <= 2 /\ b - a <= 2

\* C16: a committed swap of item X by item Y on day d changes day d's
\* totalCalories by Y.calories - X.calories and each dailyMacros field by
\* the field's delta, within 1 per field, whether or not the pre-swap totals
\* had been recomputed before.
C16_SwapDeltaWithinOne ==
    [][lastOp' = "SwapCommit" => \A r \in requests, newMeal \in AltItems :
          (SwapCommit(r, newMeal) /\ ItemConforms(newMeal)
           /\ ConformsToSchema(r.plan)) =>
             LET X == ItemAt(r.plan, SlotOf(r))
                 before == r.plan.days[r.dayIndex + 1]
                 after == plan'.days[r.dayIndex + 1]
             IN  /\ WithinOne(2 * (after.totalCalories - before.totalCalories),
                              newMeal.calories - X.calories)
                 /\ \A f \in {"protein", "carbs", "fats"} :
                       WithinOne(2 * (after.dailyMacros[f] - before.dailyMacros[f]),
                                 newMeal.macros[f] - X.macros[f])]_vars

\* Every item of every day of p can be summed.
Recomputable(p) ==
    /\ PlanDisplayRenders(p)
    /\ \A d \in 1..Len(p.days) : ~RecomputeThrows(p.days[d])

\* C17: recomputing a day of the held plan a second time yields the totals
\* of the first recomputation.
C17_RecomputeIdempotent ==
    (plan # Null /\ Recomputable(plan)) =>
       \A d \in 1..Len(plan.days) :
          RecomputedDay(RecomputedDay(plan.days[d])) = RecomputedDay(plan.days[d])

\* A swap committed on day 1 of a plan whose day 2 still carries totals that
\* a recomputation would change.
C17_Witness ==
    /\ lastOp = "SwapCommit"
    /\ plan # Null /\ Recomputable(plan)
    /\ Len(plan.days) = 2
    /\ RecomputedDay(plan.days[1]) = plan.days[1]
    /\ RecomputedDay(plan.days[2]) # plan.days[2]

\* C18: a plan stored by a generation has 28 days when the duration asked
\* for is above 7 and as many days as asked for otherwise, labeled Day 1,
\* Day 2, ... in order.
C18_StoredPlanHasRequestedDays ==
    [][lastOp' = "GenerateRespond" => \A result \in GatewayPlans :
          GenerateRespond(result) =>
             /\ Len(plan'.days) = durationDays(currentFormData.duration)
             /\ \A d \in 1..Len(plan'.days) :
                   plan'.days[d].day = "Day " \o ToString(d)]_vars

\* C19: after every step the entry userPlan holds the serialized plan when
\* a plan is held and is absent otherwise, likewise userFormData for the
\* profile, and a reload restores the plan and the profile that were held.
C19_ReloadRestoresPlanAndProfile ==
    [][/\ storage' = Persisted(plan', currentFormData')
       /\ lastOp' = "Reload" =>
             (Reload => plan' = plan /\ currentFormData' = currentFormData)]_vars

\* C15: when the swap a card asked for has failed, the card does not show
\* the state it shows after a successful swap (isSwapped, the Swapped mark).
C15_FailedSwapNotShownAsSwapped ==
    [][confirmSwapResume("failed") => ~isSwapped']_vars

\* C20: only a profile whose numeric fields are within their ranges is
\* submitted, and the calculator holds no BMR computed from a form whose
\* fields are out of range.
C20_OutOfRangeNeverEvaluated ==
    /\ submitted # Null => FormValid(submitted)
    /\ (formMounted /\ ~FormValid(formData)) => calculator.bmr = 0

\* A day of the plan p that holds an item the Gateway proposed in a swap.
DaysHoldingAlternative(p) ==
    IF "days" \notin DOMAIN p THEN {}
    ELSE { d \in 1..Len(p.days) :
             /\ {"meals", "totalCalories", "dailyMacros"} \subseteq DOMAIN p.days[d]
             /\ \E g \in 1..Len(p.days[d].meals) :
                   \E i \in 1..Len(p.days[d].meals[g].items) :
                      p.days[d].meals[g].items[i] \in AltItems }

\* C21: a plan changes by a swap only in the step in which the pending
\* Gateway call of that swap ends, the plan committed then holds the
\* replacement at the slot with the day's totals recomputed from its items,
\* and no plan that holds a replacement on a day whose totals are not the
\* recomputed ones is ever the current plan.
C21_RecomputedBeforeCommitted ==
    [][/\ lastOp' = "SwapCommit" =>
             \E r \in requests :
                /\ requests' = requests \ {r}
                /\ ItemAt(plan', SlotOf(r)) \in AltItems
                /\ DayTotalsAgree(plan'.days[r.dayIndex + 1])
       /\ \A d \in DaysHoldingAlternative(plan') :
             DayTotalsAgree(plan'.days[d])]_vars

\* A swap has committed on day 2, whose totals the Gateway had estimated
\* (520 kcal for the one item of 500.5 kcal): the day now holds the
\* replacement, 350.5 kcal, and the total 351.
C21_Witness ==
    /\ lastOp = "SwapCommit"
    /\ 2 \in DaysHoldingAlternative(plan)
    /\ ItemAt(plan, <<1, 0, 0>>) = TofuBowl
    /\ plan.days[2].totalCalories = 351

\* C22: the Gateway request of a generation is issued in the step of the
\* form's submit event, from a valid form, and what it tells the Gateway is
\* the form's biometrics and goal with the BMR, TDEE and target the
\* calculator shows for them; while the request is pending it carries the
\* values computed from the profile submitted.
C22_TargetsAttachedBeforeRequest ==
    [][/\ (generating = Null /\ generating' # Null) =>
             /\ formMounted /\ FormValid(formData)
             /\ Prompt(generating') =
                   [age |-> formData.age, gender |-> formData.gender,
                    height |-> formData.height, weight |-> formData.weight,
                    activityLevel |-> formData.activityLevel,
                    planGoal |-> formData.planGoal,
                    days |-> durationDays(formData.duration),
                    calculatedBMR |-> calculator.bmr,
                    calculatedTDEE |-> calculator.tdee,
                    targetCalories |-> calculator.targetCalories]
       /\ generating' # Null =>
             /\ submitted' # Null
             /\ Prompt(generating').calculatedBMR = bmr(submitted')
             /\ Prompt(generating').calculatedTDEE = tdee(submitted')
             /\ Prompt(generating').targetCalories = targetCalories(submitted')
             /\ currentFormData' = generating']_vars

\* A request is pending for a profile that is not the form's initial one:
\* 30 kg, Sedentary, deficit, whose target is the floor of 1200.
C22_Witness ==
    /\ generating # Null
    /\ loading
    /\ generating.weight = MinWeight
    /\ generating.activityLevel = "Sedentary"
    /\ generating.planGoal = "deficit"
    /\ generating.targetCalories = 1200

\* The plan q is the plan p but for the item at slot s, which is newMeal,
\* and the totals of the day of s.
OnlySlotChanged(p, q, s, newMeal) ==
    /\ PlanDisplayRenders(p)
    /\ s \in Slots(p)
    /\ Slots(q) = Slots(p)
    /\ ItemAt(q, s) = newMeal
    /\ \A t \in Slots(p) \ {s} : ItemAt(q, t) = ItemAt(p, t)
    /\ \A d \in 1..Len(p.days) : d # s[1] + 1 => q.days[d] = p.days[d]
    /\ q.days[s[1] + 1].day = p.days[s[1] + 1].day
    /\ q.summary = p.summary
    /\ q.safeCalorieRange = p.safeCalorieRange
    /\ q.shoppingList = p.shoppingList

\* C23: a swap that commits at a slot changes, of the plan that was current
\* and of the stored profile, only the item at that slot, which becomes the
\* item the Gateway returned, and the totals of that slot's day.
C23_SwapChangesOnlyItsSlot ==
    [][lastOp' = "SwapCommit" => \A r \in requests, newMeal \in AltItems :
          SwapCommit(r, newMeal) =>
             /\ OnlySlotChanged(plan, plan', SlotOf(r), newMeal)
             /\ currentFormData' = currentFormData
             /\ storage'.userFormData = storage.userFormData]_vars

\* C24: the plan changes only when a generation answers, when the page
\* reloads from storage, when the plan is reset, or when a swap commits;
\* a committing swap was requested for the plan current at its request and
\* commits that plan with the one item replaced and that day's totals
\* recomputed; a swap whose recomputation fails after the Gateway answered
\* leaves the plan and its stored copy as they were.
C24_CommittedPlanProvenance ==
    [][/\ lastOp' = "SwapThrow" => (plan' = plan /\ storage' = storage)
       /\ plan' # plan =>
             lastOp' \in {"GenerateRespond", "Reload", "handleResetGenerator",
                          "SwapCommit"}
       /\ lastOp' = "GenerateRespond" => plan' \in ParsedValues
       /\ lastOp' = "handleSwapMeal" =>
             \A r \in requests' \ requests : r.plan = plan
       /\ lastOp' = "SwapCommit" =>
             \E r \in requests \ requests' : \E newMeal \in AllAltItems :
                /\ OnlySlotChanged(r.plan, plan', SlotOf(r), newMeal)
                /\ DayTotalsAgree(plan'.days[r.dayIndex + 1])]_vars

\* C25: whenever a plan is held, a profile is held.
C25_PlanImpliesProfile ==
    plan # Null => currentFormData # Null

C27_GenerationEndsInOneOutcome ==
    [][(loading /\ ~loading' /\ lastOp' \in {"GenerateFail", "GenerateRespond"}) =>
          \/ plan' # Null /\ storage'.userPlan # Null /\ error' = Null
          \/ error' # Null /\ plan' = Null /\ storage'.userPlan = Null]_vars

\* C28: a card shows Swapping exactly while its swap is in flight: the
\* indicator is set in the step that confirms the swap and cleared in the
\* step in which the swap finishes, whatever its outcome; no swap is
\* confirmed or offered for confirmation while one is in flight; and when
\* every call to the Gateway eventually answers or fails, a card that shows
\* Swapping eventually stops showing it.
C28_SwappingClearedWhenSwapFinishes ==
    /\ [](isSwapping <=> onSwapPending)
    /\ [](onSwapPending => ~showConfirm)
    /\ [][(~onSwapPending /\ onSwapPending') => (showConfirm /\ isSwapping')]_vars
    /\ [][(onSwapPending /\ ~onSwapPending') => ~isSwapping']_vars
    /\ [][onSwapPending => ~confirmSwap]_vars
    /\ (isSwapping ~> ~isSwapping)

\* The card's swap has failed and the card no longer shows Swapping.
C28_Witness ==
    /\ swapResult = "failed"
    /\ ~isSwapping
    /\ ~onSwapPending
    /\ swappedTimeouts > 0

\* C29: while PlanDisplay is shown, plan.days[activeWeek * 7 +
\* activeDayIndex] exists and is the day whose meals are shown.
C29_SelectedDayIsShown ==
    PlanDisplayRendered =>
       /\ absoluteDayIndex + 1 \in 1..Len(plan.days)
       /\ plan.days[absoluteDayIndex + 1] = currentDayObject

\* C30: the timer's value is never negative; a tick of a running countdown
\* lowers it by one second, and when that brings it to 0 the timer stops
\* running and the alarm rings; no tick happens while the alarm rings; and
\* the step index is within 0..number of instructions.
C30_TimerAndStepIndexInRange ==
    [][/\ timerValue' >= 0
       /\ (tick /\ timerMode = "countdown" /\ timerValue >= 1) =>
             /\ timerValue' = timerValue - 1
             /\ timerValue' = 0 => (~isTimerRunning' /\ isAlarmRinging')
       /\ isAlarmRinging => ~tick
       /\ activeStepIndex' \in 0..Len(instructions')]_vars

====
